---- MODULE Spec2Model ----
(***************************************************************************)
(* Lock<SpinLock, T> and its LockGuard (lock/src/lock.rs) over the         *)
(* SpinLock raw lock (lock/src/spinlock.rs).                               *)
(*                                                                         *)
(* Threads 1..NThreads are the threads spawned in a scope; thread 0 is the *)
(* thread that owns the Lock value: it waits for the scope to join and can *)
(* then use the Lock itself or consume it with into_inner().               *)
(*                                                                         *)
(* The payload T is a Vec of integers.  Non-atomic accesses to the payload *)
(* are modelled with per-thread views: view[t] is the payload as thread t  *)
(* is entitled to observe it under the happens-before order; a successful  *)
(* acquire CAS that reads the value written by a release store takes over  *)
(* the view published with that store.                                     *)
(***************************************************************************)
EXTENDS Integers, Sequences, FiniteSets, TLC

\* ------------------------------------------------------------------ bounds
NThreads == 2        \* threads spawned by a client that may call anything
SmokeThreads == 3    \* threads spawned by the smoke test (LENGTH - 1 = 1023 in the test)
MaxPush == 1         \* a free client stops pushing once this many values have been pushed
BackoffCeiling == 1  \* highest value of Backoff::step (crossbeam: YIELD_LIMIT + 1)
MaxMisuse == 1       \* unsafe calls outside their contract that a client makes at most

Owner == 0

VARIABLES
    inner,        \* SpinLock.inner : AtomicBool (TRUE = held)
    data,         \* Lock.data : the payload in memory (latest write)
    pub,          \* <<v>>: view released with the store `inner` was last written by; <<>>: none
    view,         \* view[t] : the payload as thread t may observe it
    pc,           \* pc[t] : where thread t is
    step,         \* step[t] : Backoff::step of the lock() call thread t is in
    guard,        \* guard[t] : the LockGuard thread t owns, or NoGuard
    attempts,     \* attempts[t] : compare_and_swap calls made by the call thread t is in
    script,       \* script[t] : the client operations thread t still performs
    escaped,      \* number of guards consumed by into_raw() and not reconstructed
    consumed,     \* TRUE once into_inner() has consumed the Lock
    ret,          \* <<v>> once into_inner() has returned v
    initial,      \* the value the Lock was built with: Lock::new(initial)
    acquired,     \* TRUE once any lock()/try_lock() has succeeded on this Lock
    outstanding,  \* acquisitions granted minus unlock() calls made
    lastDrop,     \* the last LockGuard destruction: the unlock() calls Drop::drop made
    handle,       \* <<h>>: h.addr is the usize last returned by raw()/into_raw(); <<>>: none
    misuse        \* unsafe calls made so far that broke the contract of their function

vars == <<inner, data, pub, view, pc, step, attempts, guard, script, escaped,
          consumed, ret, initial, acquired, outstanding, lastDrop, handle, misuse>>

AllThreads == DOMAIN pc
Threads == AllThreads \ {Owner}

NoGuard == [live |-> FALSE]
NoDrop == [calls |-> << >>, issued |-> << >>]
LockAddr == "d"          \* the address of the one Lock value
AnyOps == <<"*">>        \* the script of a client that may call anything, any number of times
ExitPaths == {"scope", "return", "unwind"}
InitPayloads == {<< >>, <<42>>}

\* ------------------------------------------------------- atomics (core::sync::atomic)
AcquireOrderings == {"Acquire", "AcqRel", "SeqCst"}
ReleaseOrderings == {"Release", "AcqRel", "SeqCst"}

\* AtomicBool::compare_and_swap(current, new, _): stores `new` iff the value
\* equals `current`; returns the previous value.
CompareAndSwapBlind(cur, current, new) == [prev |-> current, now |-> new]
CompareAndSwap(cur, current, new) ==
    [prev |-> cur, now |-> IF cur = current THEN new ELSE cur]

\* ------------------------------------------------------------ spinlock.rs
\* impl Default for SpinLock: inner = AtomicBool::new(false)
SpinLockDefaultLocked == TRUE
SpinLockDefault == FALSE

\* the unit token `()`
UnitToken == << >>

\* Ordering of the compare_and_swap in lock()/try_lock()
CasOrdering == "Acquire"
\* Ordering of the store in unlock()
StoreOrderingRelaxed == "Relaxed"
StoreOrdering == "Release"

\* One iteration of the loop condition of SpinLock::lock:
\* `self.inner.compare_and_swap(false, true, Ordering::Acquire)`; the loop
\* goes on (spin) iff the CAS returns true. On exit the token () is returned.
SpinLockLockAttemptLoad(cur) == [now |-> cur, spin |-> cur, token |-> UnitToken]
SpinLockLockAttemptSwapped(cur) ==
    LET r == CompareAndSwap(cur, TRUE, FALSE)
    IN  [now |-> r.now, spin |-> ~r.prev, token |-> UnitToken]
SpinLockLockAttempt(cur) ==
    LET r == CompareAndSwap(cur, FALSE, TRUE)
    IN  [now |-> r.now, spin |-> r.prev, token |-> UnitToken]

\* SpinLock::try_lock: one CAS; Ok(()) iff it returned false.
SpinLockTryLockToggle(cur) == [now |-> ~cur, ok |-> ~cur, token |-> UnitToken]
SpinLockTryLockInverted(cur) ==
    LET r == CompareAndSwap(cur, FALSE, TRUE)
    IN  [now |-> r.now, ok |-> r.prev, token |-> UnitToken]
SpinLockTryLock(cur) ==
    LET r == CompareAndSwap(cur, FALSE, TRUE)
    IN  [now |-> r.now, ok |-> ~r.prev, token |-> UnitToken]

\* SpinLock::unlock(_token): self.inner.store(false, Release); the token is ignored.
SpinLockUnlockNoStore(cur, token) == cur
SpinLockUnlock(cur, token) == FALSE

\* Backoff::snooze(): the step grows by one up to its ceiling.
BackoffNew == 0
BackoffSnooze(s) == IF s < BackoffCeiling THEN s + 1 ELSE s

\* Counts of compare_and_swap calls are kept up to one past the backoff ceiling.
Saturate(n) == IF n > BackoffCeiling + 1 THEN BackoffCeiling + 1 ELSE n

\* ---------------------------------------------------------------- lock.rs
\* LockGuard { lock: self, token, _marker } as built by Lock::lock / Lock::try_lock.
\* `issued` and `creator` are history fields: the token the raw lock returned
\* and the thread that made the call.
LockGuardForeignToken(t, token, via) ==
    [live |-> TRUE, lock |-> LockAddr, token |-> <<"_">>,
     issued |-> token, creator |-> t, via |-> via]
LockGuard(t, token, via) ==
    [live |-> TRUE, lock |-> LockAddr, token |-> token,
     issued |-> token, creator |-> t, via |-> via]

\* `unsafe impl Send for LockGuard` overrides the !Send of PhantomData<*const ()>.
MarkerIsSend == FALSE
UnsafeImplSend == TRUE
LockGuardIsSend == MarkerIsSend \/ UnsafeImplSend

\* Drop for LockGuard: the unlock() calls made, as the sequence of tokens passed.
DropCallsLeakOnUnwind(g, path) == IF path = "unwind" THEN << >> ELSE << g.token >>
DropCalls(g, path) == << g.token >>

\* The flag after the unlock() calls of a drop.
RECURSIVE ApplyUnlocks(_, _)
ApplyUnlocks(cur, calls) ==
    IF calls = << >> THEN cur
    ELSE ApplyUnlocks(SpinLockUnlock(cur, Head(calls)), Tail(calls))

\* Vec::sort: the elements in ascending order.
RECURSIVE Insert(_, _)
Insert(sorted, x) ==
    IF sorted = << >> \/ x <= Head(sorted) THEN <<x>> \o sorted
    ELSE <<Head(sorted)>> \o Insert(Tail(sorted), x)
RECURSIVE Sort(_)
Sort(v) == IF v = << >> THEN << >> ELSE Insert(Sort(Tail(v)), Head(v))

\* (1..LENGTH).collect::<Vec<usize>>() of the smoke test, for LENGTH - 1 = n
Range(n) == [i \in 1..n |-> i]

\* Lock::into_inner: self.data.into_inner(); the lock field is not touched.
IntoInnerLocking(flag, payload) == [flag |-> TRUE, value |-> payload]
IntoInner(flag, payload) == [flag |-> flag, value |-> payload]

\* ------------------------------------------------------------- the client
Permit(t, op) == script[t] # << >> /\ Head(script[t]) \in {op, "*"}
Advance(t) ==
    script' = [script EXCEPT ![t] = IF Head(@) = "*" THEN @ ELSE Tail(@)]

Synchronizes == CasOrdering \in AcquireOrderings /\ pub # << >>
Released(v) == IF StoreOrdering \in ReleaseOrderings THEN <<v>> ELSE << >>

LiveGuards == {t \in AllThreads : guard[t].live}

\* Thread t is between two calls: it has made none yet, or the last one has
\* returned; "err" is the position right after a try_lock() that returned Err(()).
AtRest(t) == pc[t] \in {"idle", "err"}

\* Lock::new(v) in an owner that has spawned the threads 1..n, each running `ops`.
Start(n, v, ops, ownerOps) ==
    /\ inner = SpinLockDefault
    /\ data = v
    /\ initial = v
    /\ pub = <<v>>
    /\ view = [t \in 0..n |-> v]
    /\ pc = [t \in 0..n |-> IF t = Owner THEN "scope" ELSE "idle"]
    /\ step = [t \in 0..n |-> BackoffNew]
    /\ attempts = [t \in 0..n |-> 0]
    /\ guard = [t \in 0..n |-> NoGuard]
    /\ script = [t \in 0..n |-> IF t = Owner THEN ownerOps ELSE ops]
    /\ escaped = 0
    /\ consumed = FALSE
    /\ ret = << >>
    /\ acquired = FALSE
    /\ outstanding = 0
    /\ lastDrop = NoDrop
    /\ handle = << >>
    /\ misuse = 0

Init == \E v \in InitPayloads : Start(NThreads, v, AnyOps, AnyOps)

\* Lock::lock entered: SpinLock::lock creates its Backoff.
LockCall(t) ==
    /\ AtRest(t) /\ ~consumed /\ Permit(t, "lock")
    /\ Advance(t)
    /\ pc' = [pc EXCEPT ![t] = "lock"]
    /\ step' = [step EXCEPT ![t] = BackoffNew]
    /\ attempts' = [attempts EXCEPT ![t] = 0]
    /\ UNCHANGED <<inner, data, pub, view, guard, escaped, consumed, ret, initial,
                   acquired, outstanding, lastDrop, handle, misuse>>

\* The guard is handed to thread t: the acquire takes over the released view.
Grant(t, token, via) ==
    /\ guard' = [guard EXCEPT ![t] = LockGuard(t, token, via)]
    /\ view' = [view EXCEPT ![t] = IF Synchronizes THEN pub[1] ELSE @]
    /\ acquired' = TRUE
    /\ outstanding' = outstanding + 1

\* One evaluation of the loop condition of SpinLock::lock; on success Lock::lock
\* wraps the token in a LockGuard.
LockCas(t) ==
    /\ pc[t] = "lock"
    /\ LET r == SpinLockLockAttempt(inner)
       IN  /\ inner' = r.now
           /\ IF r.spin
              THEN /\ pc' = [pc EXCEPT ![t] = "snooze"]
                   /\ attempts' = [attempts EXCEPT ![t] = Saturate(@ + 1)]
                   /\ UNCHANGED <<guard, view, acquired, outstanding, step>>
              ELSE /\ pc' = [pc EXCEPT ![t] = "held"]
                   /\ Grant(t, r.token, "lock")
                   /\ step' = [step EXCEPT ![t] = BackoffNew]
                   /\ attempts' = [attempts EXCEPT ![t] = 0]
    /\ UNCHANGED <<data, pub, script, escaped, consumed, ret, initial, lastDrop, handle, misuse>>

\* The loop body of SpinLock::lock: backoff.snooze().
SnoozeNone(t) ==
    /\ pc[t] = "snooze"
    /\ pc' = [pc EXCEPT ![t] = "lock"]
    /\ UNCHANGED <<inner, data, pub, view, step, attempts, guard, script, escaped,
                   consumed, ret, initial, acquired, outstanding, lastDrop, handle,
                   misuse>>
Snooze(t) ==
    /\ pc[t] = "snooze"
    /\ step' = [step EXCEPT ![t] = BackoffSnooze(@)]
    /\ pc' = [pc EXCEPT ![t] = "lock"]
    /\ UNCHANGED <<inner, data, pub, view, attempts, guard, script, escaped, consumed,
                   ret, initial, acquired, outstanding, lastDrop, handle, misuse>>

\* Lock::try_lock entered.
TryLockCall(t) ==
    /\ AtRest(t) /\ ~consumed /\ Permit(t, "try_lock")
    /\ Advance(t)
    /\ pc' = [pc EXCEPT ![t] = "try"]
    /\ attempts' = [attempts EXCEPT ![t] = 0]
    /\ UNCHANGED <<inner, data, pub, view, step, guard, escaped, consumed, ret,
                   initial, acquired, outstanding, lastDrop, handle, misuse>>

\* SpinLock::try_lock's compare_and_swap and Lock::try_lock's map of its result:
\* Ok(token) becomes Ok(LockGuard), Err(()) is returned as it is. A caller that
\* owns a guard already is back in its critical section after the Err.
TryLockCas(t) ==
    /\ pc[t] = "try"
    /\ LET r == SpinLockTryLock(inner)
       IN  /\ inner' = r.now
           /\ IF r.ok
              THEN /\ pc' = [pc EXCEPT ![t] = "held"]
                   /\ Grant(t, r.token, "try_lock")
              ELSE /\ pc' = [pc EXCEPT ![t] = IF guard[t].live THEN "held" ELSE "err"]
                   /\ UNCHANGED <<guard, view, acquired, outstanding>>
    /\ UNCHANGED <<data, pub, step, attempts, script, escaped, consumed, ret,
                   initial, lastDrop, handle, misuse>>

\* d.push(i) through DerefMut for LockGuard: a write of the payload.
Push(t) ==
    /\ pc[t] = "held" /\ guard[t].live
    /\ \/ script[t] # << >> /\ Head(script[t]) = "push"
       \/ script[t] = AnyOps /\ Len(view[t]) < Len(initial) + MaxPush
    /\ Advance(t)
    /\ data' = Append(view[t], t)
    /\ view' = [view EXCEPT ![t] = Append(@, t)]
    /\ UNCHANGED <<inner, pub, pc, step, attempts, guard, escaped, consumed, ret,
                   initial, acquired, outstanding, lastDrop, handle, misuse>>

\* The guard of thread t goes out of scope on `path`: Drop for LockGuard runs.
\* A thread that unwinds has panicked and is gone afterwards.
DropGuard(t, path) ==
    /\ pc[t] = "held" /\ guard[t].live /\ Permit(t, "drop")
    /\ Advance(t)
    /\ LET g == guard[t]
           calls == DropCalls(g, path)
       IN  /\ inner' = ApplyUnlocks(inner, calls)
           /\ pub' = IF calls # << >> THEN Released(view[t]) ELSE pub
           /\ outstanding' = outstanding - Len(calls)
           /\ lastDrop' = [calls |-> calls, issued |-> g.issued]
    /\ guard' = [guard EXCEPT ![t] = NoGuard]
    /\ pc' = [pc EXCEPT ![t] = IF path = "unwind" THEN "panicked" ELSE "idle"]
    /\ UNCHANGED <<data, view, step, attempts, escaped, consumed, ret, initial,
                   acquired, handle, misuse>>

\* A guard is moved from thread t to thread u (LockGuard is Send); the hand-over
\* orders u after everything t did.
SendGuard(t, u) ==
    /\ LockGuardIsSend
    /\ t # u
    /\ pc[t] = "held" /\ guard[t].live /\ script[t] = AnyOps
    /\ AtRest(u) /\ ~guard[u].live /\ script[u] = AnyOps
    /\ guard' = [guard EXCEPT ![t] = NoGuard, ![u] = guard[t]]
    /\ pc' = [pc EXCEPT ![t] = "idle", ![u] = "held"]
    /\ view' = [view EXCEPT ![u] = view[t]]
    /\ UNCHANGED <<inner, data, pub, step, attempts, script, escaped, consumed, ret,
                   initial, acquired, outstanding, lastDrop, handle, misuse>>

\* `self.lock as *const _ as usize` of raw() and into_raw(): the address of the
\* Lock; `issued` is a history field: the token of the guard it was taken from.
RawHandle(g) == [addr |-> g.lock, issued |-> g.issued]

\* LockGuard::into_raw: `self.lock as *const _ as usize` is returned and
\* mem::forget(self) keeps Drop from running: no unlock() call is made.
IntoRawCallsDrop(g) == << g.token >>
IntoRawCalls(g) == << >>

IntoRaw(t) ==
    /\ pc[t] = "held" /\ guard[t].live /\ script[t] = AnyOps
    /\ LET calls == IntoRawCalls(guard[t])
       IN  /\ inner' = ApplyUnlocks(inner, calls)
           /\ pub' = IF calls # << >> THEN Released(view[t]) ELSE pub
           /\ outstanding' = outstanding - Len(calls)
    /\ handle' = <<RawHandle(guard[t])>>
    /\ guard' = [guard EXCEPT ![t] = NoGuard]
    /\ escaped' = escaped + 1
    /\ pc' = [pc EXCEPT ![t] = "idle"]
    /\ UNCHANGED <<data, view, step, attempts, script, consumed, ret,
                   initial, acquired, lastDrop, misuse>>

\* A spawned thread returns from its closure.
ThreadExit(t) ==
    /\ t \in Threads
    /\ AtRest(t)
    /\ script[t] \in {<< >>, AnyOps}
    /\ pc' = [pc EXCEPT ![t] = "done"]
    /\ UNCHANGED <<inner, data, pub, view, step, attempts, guard, script, escaped,
                   consumed, ret, initial, acquired, outstanding, lastDrop, handle, misuse>>

\* scope(..) returns in the owner once every spawned thread is joined; the
\* join orders the owner after everything the threads did.
Join ==
    /\ pc[Owner] = "scope"
    /\ \A t \in Threads : pc[t] \in {"done", "panicked"}
    /\ pc' = [pc EXCEPT ![Owner] = "idle"]
    /\ view' = [view EXCEPT ![Owner] = data]
    /\ UNCHANGED <<inner, data, pub, step, attempts, guard, script, escaped, consumed,
                   ret, initial, acquired, outstanding, lastDrop, handle, misuse>>

\* Lock::into_inner by the owner, who holds no borrow of the Lock any more.
IntoInnerCall ==
    /\ AtRest(Owner) /\ ~guard[Owner].live /\ ~consumed
    /\ Permit(Owner, "into_inner")
    /\ Advance(Owner)
    /\ LET r == IntoInner(inner, view[Owner])
       IN  /\ inner' = r.flag
           /\ ret' = <<r.value>>
    /\ consumed' = TRUE
    /\ pc' = [pc EXCEPT ![Owner] = "done"]
    /\ UNCHANGED <<data, pub, view, step, attempts, guard, escaped, initial,
                   acquired, outstanding, lastDrop, handle, misuse>>

Next ==
    \/ \E t \in AllThreads : LockCall(t)
    \/ \E t \in AllThreads : LockCas(t)
    \/ \E t \in AllThreads : Snooze(t)
    \/ \E t \in AllThreads : TryLockCall(t)
    \/ \E t \in AllThreads : TryLockCas(t)
    \/ \E t \in AllThreads : Push(t)
    \/ \E t \in AllThreads, path \in ExitPaths : DropGuard(t, path)
    \/ \E t, u \in AllThreads : SendGuard(t, u)
    \/ \E t \in AllThreads : IntoRaw(t)
    \/ \E t \in Threads : ThreadExit(t)
    \/ Join
    \/ IntoInnerCall

Spec == Init /\ [][Next]_vars

\* ------------------------------------------------------------ tests::smoke
\* `d.sort()` through the owner's guard.
SortCall(t) ==
    /\ pc[t] = "held" /\ guard[t].live
    /\ script[t] # << >> /\ Head(script[t]) = "sort"
    /\ Advance(t)
    /\ data' = Sort(view[t])
    /\ view' = [view EXCEPT ![t] = Sort(@)]
    /\ UNCHANGED <<inner, pub, pc, step, attempts, guard, escaped, consumed, ret,
                   initial, acquired, outstanding, lastDrop, handle, misuse>>

\* Lock::new(vec![]); each spawned thread i runs `let mut d = d.lock(); d.push(i);`;
\* after the scope the owner runs `let mut d = d.lock(); d.sort(); assert_eq!(..)`.
SmokeInit ==
    Start(SmokeThreads, << >>, <<"lock", "push", "drop">>, <<"lock", "sort", "drop">>)

SmokeNext ==
    \/ \E t \in AllThreads : LockCall(t)
    \/ \E t \in AllThreads : LockCas(t)
    \/ \E t \in AllThreads : Snooze(t)
    \/ \E t \in AllThreads : Push(t)
    \/ \E t \in AllThreads : DropGuard(t, "scope")
    \/ \E t \in Threads : ThreadExit(t)
    \/ Join
    \/ \E t \in AllThreads : SortCall(t)

SmokeSpec == SmokeInit /\ [][SmokeNext]_vars

\* ------------------------------------------- threads locking in a tight loop
\* Every spawned thread runs `loop { let mut d = d.lock(); ..; }` for ever; a
\* thread that is scheduled again and again takes its next step.
LoopNext ==
    \/ \E t \in Threads : LockCall(t)
    \/ \E t \in Threads : LockCas(t)
    \/ \E t \in Threads : Snooze(t)
    \/ \E t \in Threads : Push(t)
    \/ \E t \in Threads : DropGuard(t, "scope")

LoopSpec ==
    /\ Init
    /\ [][LoopNext]_vars
    /\ \A t \in 1..NThreads :
          /\ WF_vars(LockCall(t))
          /\ WF_vars(LockCas(t))
          /\ WF_vars(Snooze(t))
          /\ WF_vars(DropGuard(t, "scope"))

\* ------------------------------------------------------------ the raw API
\* The values of the token type of SpinLock: `type Token = ()`.
Tokens == {UnitToken}

\* LockGuard::raw(&mut self): the address of the Lock; the guard stays.
Raw(t) ==
    /\ pc[t] = "held" /\ guard[t].live /\ script[t] = AnyOps
    /\ handle' = <<RawHandle(guard[t])>>
    /\ UNCHANGED <<inner, data, pub, view, pc, step, attempts, guard, script, escaped,
                   consumed, ret, initial, acquired, outstanding, lastDrop, misuse>>

\* Lock::get_mut(&mut self) by the owner after the scope, followed by a write
\* through the &mut T: no guard borrows the Lock, the flag is not looked at.
GetMut ==
    /\ AtRest(Owner) /\ ~consumed /\ LiveGuards = {}
    /\ script[Owner] = AnyOps /\ Len(view[Owner]) < Len(initial) + MaxPush
    /\ data' = Append(view[Owner], Owner)
    /\ view' = [view EXCEPT ![Owner] = Append(@, Owner)]
    /\ UNCHANGED <<inner, pub, pc, step, attempts, guard, script, escaped, consumed,
                   ret, initial, acquired, outstanding, lastDrop, handle, misuse>>

\* LockGuard::from_raw(data, token): Self { lock: &*(data as *const _), token, .. }.
LockGuardFromRawFresh(t, h, token) ==
    [live |-> TRUE, lock |-> h.addr, token |-> <<"_">>,
     issued |-> h.issued, creator |-> t, via |-> "from_raw"]
LockGuardFromRaw(t, h, token) ==
    [live |-> TRUE, lock |-> h.addr, token |-> token,
     issued |-> h.issued, creator |-> t, via |-> "from_raw"]

\* Thread t, to which the handle has been passed, rebuilds a guard from it.
\* The function checks nothing: its contract (one reconstruction for each
\* into_raw) is the caller's; a call outside it is counted in `misuse`.
\* Within the contract nobody has written through a guard since into_raw, and
\* the hand-over of the handle orders t after the writes made before it.
FromRaw(t, token) ==
    /\ AtRest(t) /\ ~guard[t].live /\ ~consumed /\ script[t] = AnyOps
    /\ handle # << >>
    /\ guard' = [guard EXCEPT ![t] = LockGuardFromRaw(t, handle[1], token)]
    /\ pc' = [pc EXCEPT ![t] = "held"]
    /\ view' = [view EXCEPT ![t] = IF escaped > 0 THEN data ELSE @]
    /\ escaped' = IF escaped > 0 THEN escaped - 1 ELSE escaped
    /\ misuse' = IF escaped > 0 THEN misuse ELSE misuse + 1
    /\ UNCHANGED <<inner, data, pub, step, attempts, script, consumed, ret, initial,
                   acquired, outstanding, lastDrop, handle>>

\* Lock::unlock_unchecked(&self, token): self.lock.unlock(token). Any thread that
\* can reach the Lock can call it; the call is within its contract when it
\* releases an acquisition whose guard was given up with into_raw.
UnlockUnchecked(t, token) ==
    /\ pc[t] \in {"idle", "err", "held"} /\ ~consumed /\ script[t] = AnyOps
    /\ inner' = SpinLockUnlock(inner, token)
    /\ pub' = Released(view[t])
    /\ outstanding' = outstanding - 1
    /\ escaped' = IF escaped > 0 THEN escaped - 1 ELSE escaped
    /\ misuse' = IF escaped > 0 THEN misuse ELSE misuse + 1
    /\ UNCHANGED <<data, view, pc, step, attempts, guard, script, consumed, ret,
                   initial, acquired, lastDrop, handle>>

\* The safe API with the raw handles used as their contract demands: a guard
\* given up with into_raw() is rebuilt by from_raw() at most once.
RawNext ==
    \/ \E t \in Threads : LockCall(t)
    \/ \E t \in Threads : LockCas(t)
    \/ \E t \in Threads : Snooze(t)
    \/ \E t \in Threads : TryLockCall(t)
    \/ \E t \in Threads : TryLockCas(t)
    \/ \E t \in Threads : Push(t)
    \/ \E t \in Threads, path \in ExitPaths : DropGuard(t, path)
    \/ \E t \in Threads : Raw(t)
    \/ \E t \in Threads : IntoRaw(t)
    \/ \E t \in Threads, token \in Tokens : escaped > 0 /\ FromRaw(t, token)
    \/ \E t \in Threads : ThreadExit(t)
    \/ Join
    \/ GetMut

RawSpec == Init /\ [][RawNext]_vars

\* The unsafe functions called by clients that do not keep to their contracts:
\* from_raw() on a handle whose guard was rebuilt already or never given up
\* (raw() hands out the same usize), unlock_unchecked() by a thread that has no
\* acquisition to release.
UnsafeNext ==
    \/ \E t \in Threads : LockCall(t)
    \/ \E t \in Threads : LockCas(t)
    \/ \E t \in Threads : Snooze(t)
    \/ \E t \in Threads : TryLockCall(t)
    \/ \E t \in Threads : TryLockCas(t)
    \/ \E t \in Threads : DropGuard(t, "scope")
    \/ \E t \in Threads : Raw(t)
    \/ \E t \in Threads : IntoRaw(t)
    \/ \E t \in Threads, token \in Tokens :
          (escaped > 0 \/ misuse < MaxMisuse) /\ FromRaw(t, token)
    \/ \E t \in Threads, token \in Tokens :
          (escaped > 0 \/ misuse < MaxMisuse) /\ UnlockUnchecked(t, token)

UnsafeSpec == Init /\ [][UnsafeNext]_vars

\* ------------------------------------------- calls made from inside a guard
\* A thread that owns a guard calls lock() again on the same Lock: Lock::lock
\* takes &self and SpinLock keeps no owner, so the call is the same call.
NestedLockCall(t) ==
    /\ pc[t] = "held" /\ guard[t].live /\ ~consumed /\ Permit(t, "lock")
    /\ Advance(t)
    /\ pc' = [pc EXCEPT ![t] = "lock"]
    /\ step' = [step EXCEPT ![t] = BackoffNew]
    /\ attempts' = [attempts EXCEPT ![t] = 0]
    /\ UNCHANGED <<inner, data, pub, view, guard, escaped, consumed, ret, initial,
                   acquired, outstanding, lastDrop, handle, misuse>>

\* A thread that owns a guard calls try_lock() on the same Lock.
NestedTryLockCall(t) ==
    /\ pc[t] = "held" /\ guard[t].live /\ ~consumed /\ Permit(t, "try_lock")
    /\ Advance(t)
    /\ pc' = [pc EXCEPT ![t] = "try"]
    /\ attempts' = [attempts EXCEPT ![t] = 0]
    /\ UNCHANGED <<inner, data, pub, view, step, guard, escaped, consumed, ret,
                   initial, acquired, outstanding, lastDrop, handle, misuse>>

\* ------------------------------------------------- guards that are never dropped
\* The clients keep every guard they get (the guard is kept alive for as long
\* as the program runs, or leaked with into_raw): unlock() is never called.
\* A thread inside lock() that is scheduled again and again takes its next step.
HoldNext ==
    \/ \E t \in Threads : LockCall(t)
    \/ \E t \in Threads : LockCas(t)
    \/ \E t \in Threads : Snooze(t)
    \/ \E t \in Threads : TryLockCall(t)
    \/ \E t \in Threads : TryLockCas(t)
    \/ \E t \in Threads : Push(t)
    \/ \E t \in Threads : IntoRaw(t)
    \/ \E t \in Threads : NestedLockCall(t)
    \/ \E t \in Threads : NestedTryLockCall(t)

HoldSpec ==
    /\ Init
    /\ [][HoldNext]_vars
    /\ \A t \in 1..NThreads :
          /\ WF_vars(LockCas(t))
          /\ WF_vars(Snooze(t))

\* ------------------------------------------------------------------ claims

\* C1: mutual exclusion: in every reachable state at most one thread holds a
\* live guard of the Lock, and at most one thread is in its critical section.
C1_MutualExclusion ==
    /\ Cardinality(LiveGuards) <= 1
    /\ Cardinality({t \in AllThreads : pc[t] = "held"}) <= 1
\* a thread holds the guard while another one has lost a CAS inside lock()
C1_Witness ==
    \E t, u \in AllThreads : t # u /\ guard[t].live /\ pc[u] = "snooze"

\* C2: no lost or duplicated updates in the smoke test: once every spawned
\* thread has finished, the payload holds each of the values 1..K exactly once,
\* and what the owner then reads and sorts equals 1, 2, .., K (the assert_eq!).
C2_NoLostUpdate ==
    /\ (\A t \in Threads : pc[t] = "done") =>
          /\ Len(data) = SmokeThreads
          /\ \A i \in 1..SmokeThreads :
                Cardinality({k \in 1..Len(data) : data[k] = i}) = 1
    /\ (guard[Owner].live /\ script[Owner] = <<"drop">>) =>
          view[Owner] = Range(SmokeThreads)
\* all threads are done and their pushes did not arrive in the order 1, 2, .., K
C2_Witness ==
    /\ \A t \in Threads : pc[t] = "done"
    /\ Len(data) = SmokeThreads
    /\ data[1] = SmokeThreads
    /\ pc[Owner] = "scope"

\* C3: exactly-once release: every destroyed guard has called unlock() exactly
\* once, whatever the exit path, and no other guard has called it: the
\* acquisitions not yet released are exactly the live guards plus the guards
\* consumed by into_raw(), and the last destruction made exactly one call.
C3_ExactlyOnceRelease ==
    /\ outstanding = Cardinality(LiveGuards) + escaped
    /\ Len(lastDrop.calls) <= 1
    /\ (\E t \in AllThreads : pc[t] = "panicked") => Len(lastDrop.calls) = 1
\* a guard was destroyed by unwinding, and another thread has acquired the lock since
C3_Witness ==
    \E t, u \in AllThreads :
        /\ pc[t] = "panicked"
        /\ guard[u].live /\ guard[u].creator = u
        /\ outstanding = 1

\* C4: progress among threads that only lock() and drop: whenever the flag is
\* Unlocked while some thread is inside lock(), some thread gets the guard; and
\* whenever the flag is Locked it becomes Unlocked again.
C4_Progress ==
    /\ (inner = FALSE /\ \E t \in Threads : pc[t] \in {"lock", "snooze"})
          ~> (\E t \in Threads : guard[t].live)
    /\ (inner = TRUE) ~> (inner = FALSE)
\* the flag is Unlocked while a thread that lost a CAS is still inside lock()
C4_Witness ==
    /\ inner = FALSE
    /\ \E t \in Threads : pc[t] = "snooze" /\ step[t] = BackoffCeiling

\* C5: try_lock(): a thread inside try_lock() has made no attempt yet, its one
\* compare-and-set step ends the call, and the call ends with a guard iff that
\* step changed the flag from Unlocked to Locked; otherwise the thread is back
\* in its caller without a guard (no retry, no backoff).
C5_TryLockOnce ==
    [][\A t \in AllThreads :
          pc[t] = "try" =>
             /\ attempts[t] = 0
             /\ attempts'[t] = 0
             /\ pc'[t] # "try" =>
                   /\ pc'[t] \in {"held", "err"}
                   /\ pc'[t] = "held" <=> (inner = FALSE /\ inner' = TRUE)
                   /\ guard'[t].live <=> pc'[t] = "held"
                   /\ step'[t] = step[t]]_vars
\* one thread got its guard from try_lock() and another has just failed try_lock()
\* or is about to
C5_Witness ==
    \E t, u \in AllThreads :
        /\ t # u
        /\ guard[t].live /\ guard[t].via = "try_lock" /\ guard[t].creator = t
        /\ pc[u] = "try"

\* C6: token integrity: the token a guard holds, and every token its destruction
\* passes to unlock(), is the token the raw lock returned to the call that
\* created the guard.
C6_TokenIntegrity ==
    /\ \A t \in AllThreads : guard[t].live => guard[t].token = guard[t].issued
    /\ \A i \in 1..Len(lastDrop.calls) : lastDrop.calls[i] = lastDrop.issued
\* a guard was destroyed and unlock() was called with its token
C6_Witness ==
    /\ lastDrop.calls = <<UnitToken>>
    /\ lastDrop.issued = UnitToken
    /\ inner = FALSE /\ acquired

\* C7: release/acquire visibility: the thread that holds the guard observes the
\* payload exactly as the latest write left it, writes of earlier holders included.
C7_Visibility ==
    \A t \in AllThreads : guard[t].live => view[t] = data
\* a thread acquired the lock itself and sees a value pushed by another thread
C7_Witness ==
    \E t \in AllThreads :
        /\ guard[t].live /\ guard[t].creator = t
        /\ view[t] = data
        /\ \E i \in 1..Len(data) : data[i] \in Threads \ {t}

\* C8: guard thread-confinement: a guard is owned and dropped only by the
\* thread that created it.
C8_ThreadConfined ==
    \A t \in AllThreads : guard[t].live => guard[t].creator = t

\* C9 as claimed: each of the threads completes critical sections again and again.
C9_NoStarvation ==
    \A t \in 1..NThreads : []<><<DropGuard(t, "scope")>>_vars
\* C9 as amended: critical sections are completed again and again (by some thread).
C9_SomeProgress ==
    []<><<\E t \in Threads : DropGuard(t, "scope")>>_vars
\* a thread that has completed a critical section (its push is in the payload)
\* is spinning in lock() while another thread holds the guard
C9_Witness ==
    \E t, u \in Threads :
        /\ t # u
        /\ pc[t] = "held" /\ pc[u] = "snooze"
        /\ \E i \in 1..Len(data) : data[i] = u

\* C10: into_inner() returns the payload as last written (the value given to
\* new() when the lock was never acquired), and leaves the flag, the guards and
\* the release accounting as they were.
C10_IntoInner ==
    [][(~consumed /\ consumed') =>
          /\ ret' = <<data>>
          /\ ~acquired => ret' = <<initial>>
          /\ inner' = inner
          /\ guard' = guard /\ outstanding' = outstanding /\ escaped' = escaped
          /\ data' = data]_vars
\* into_inner() returned a payload that was written under the lock, while the
\* flag was still Locked for a guard consumed by into_raw()
C10_Witness ==
    /\ consumed /\ inner = TRUE /\ escaped = 1
    /\ ret = <<data>> /\ data # initial

\* C11: lock() has no timeout: when no holder ever releases, a thread inside
\* lock() that finds the flag Locked stays inside lock() for ever: none of its
\* steps returns, gives it a guard or changes the flag, and it goes on making
\* compare-and-set attempts, each followed by a backoff step, without end.
C11_InLock(t) == pc[t] \in {"lock", "snooze"} /\ inner = TRUE
C11_NoTimeout ==
    /\ [][\A t \in Threads :
             C11_InLock(t) =>
                /\ pc'[t] \in {"lock", "snooze"}
                /\ guard'[t] = guard[t]
                /\ inner' = TRUE /\ outstanding' = outstanding]_vars
    /\ \A t \in 1..NThreads :
          <>C11_InLock(t) => ([]<>(pc[t] = "lock") /\ []<>(pc[t] = "snooze"))
\* thread u keeps its guard and thread t has lost more compare-and-sets than the
\* backoff has levels
C11_Witness ==
    \E t, u \in Threads :
        /\ t # u /\ guard[u].live /\ ~guard[t].live
        /\ pc[t] = "snooze" /\ attempts[t] = BackoffCeiling + 1

\* C12: a try_lock() that fails found the flag Locked and leaves it Locked; the
\* failing step creates no guard, makes no unlock() call, and changes no guard
\* and nothing of the payload or of what has been released; the caller is back
\* at rest with Err(()), from where it can call try_lock() again, and a
\* try_lock() whose compare-and-set finds the flag Unlocked returns a guard.
C12_FailedTryLock ==
    /\ [][\A t \in AllThreads :
             (pc[t] = "try" /\ pc'[t] = "err") =>
                /\ inner = TRUE /\ inner' = TRUE
                /\ guard' = guard /\ ~guard'[t].live
                /\ outstanding' = outstanding /\ lastDrop' = lastDrop
                /\ escaped' = escaped
                /\ data' = data /\ view' = view /\ pub' = pub]_vars
    /\ [][\A t \in AllThreads :
             (pc[t] = "try" /\ inner = FALSE /\ pc'[t] # "try") =>
                /\ pc'[t] = "held" /\ guard'[t].live /\ guard'[t].via = "try_lock"
                /\ inner' = TRUE]_vars
    /\ [](\A t \in AllThreads :
             (pc[t] = "err" /\ ~consumed) => ENABLED TryLockCall(t))
\* thread t is back from a failed try_lock(); since then the holder, who wrote
\* the payload, has released: the flag is Unlocked again
C12_Witness ==
    \E t \in AllThreads :
        /\ pc[t] = "err" /\ ~guard[t].live
        /\ inner = FALSE /\ lastDrop.calls # << >> /\ data # initial

\* C13: the flag starts Unlocked; it changes only from Unlocked to Locked, in
\* the step by which the compare-and-set of a lock()/try_lock() call succeeds and
\* the call returns its guard, and from Locked to Unlocked, in the step by which
\* a guard is destroyed and unlock() is called. A failed compare-and-set, a
\* backoff step, a write through a guard, raw(), into_raw(), from_raw() and a
\* write through get_mut() leave it as it is. Acquisitions and unlock() calls
\* alternate, an acquisition first: their difference is 0 or 1, and is 1
\* exactly while the flag is Locked.
C13_FlagMachine ==
    /\ [](~acquired => inner = FALSE)
    /\ [][inner' # inner =>
             \/ /\ inner = FALSE /\ inner' = TRUE
                /\ outstanding' = outstanding + 1
                /\ \E t \in AllThreads :
                      pc[t] \in {"lock", "try"} /\ pc'[t] = "held" /\ guard'[t].live
             \/ /\ inner = TRUE /\ inner' = FALSE
                /\ outstanding' = outstanding - 1
                /\ escaped' = escaped
                /\ \E t \in AllThreads : guard[t].live /\ ~guard'[t].live]_vars
    /\ [][\A t \in AllThreads :
             (\/ pc[t] = "lock" /\ pc'[t] = "snooze"
              \/ pc[t] = "try" /\ pc'[t] = "err"
              \/ pc[t] = "snooze" /\ pc'[t] # "snooze") => inner' = inner]_vars
    /\ [][(data' # data \/ handle' # handle \/ escaped' # escaped) =>
             inner' = inner]_vars
    /\ [][outstanding' # outstanding => inner' # inner]_vars
    /\ [](outstanding \in {0, 1} /\ (inner = TRUE <=> outstanding = 1))
\* after a first acquisition was released and written under, the flag is Locked
\* again by a guard that was given up with into_raw(), while a thread spins
C13_Witness ==
    /\ inner = TRUE /\ escaped = 1 /\ handle # << >>
    /\ lastDrop.calls # << >> /\ data # initial
    /\ \E t \in Threads : pc[t] = "snooze"

\* C14: in every reachable state the flag is Locked iff exactly one release
\* obligation is outstanding: one live guard, or one handle given out by
\* into_raw() and not yet turned back into a guard; there is never more than
\* one. So a guard is live only while the flag is Locked, every write of the
\* payload made while a guard is live happens with the flag Locked, and every
\* unlock() call is made with the flag Locked.
C14_FlagGuard ==
    /\ [](/\ Cardinality(LiveGuards) + escaped <= 1
          /\ inner = TRUE <=> Cardinality(LiveGuards) + escaped = 1
          /\ \A t \in AllThreads : (guard[t].live \/ pc[t] = "held") => inner = TRUE)
    /\ [][(data' # data /\ LiveGuards # {}) => (inner = TRUE /\ inner' = TRUE)]_vars
    /\ [][outstanding' < outstanding => inner = TRUE]_vars
\* the one obligation is a handle given out by into_raw(): no guard is live, the
\* flag is Locked and a try_lock() has failed on it
C14_Witness ==
    /\ inner = TRUE /\ escaped = 1 /\ LiveGuards = {}
    /\ \E t \in Threads : pc[t] = "err"

\* C15: into_raw() consumes a live guard without an unlock() call and returns
\* the address of the Lock the guard was for; from_raw(), called once with that
\* handle and the token of the consumed guard, yields a live guard for the same
\* Lock with that token, again without touching the flag; the destruction of
\* any guard, rebuilt or not, makes one unlock() call with the guard's token and
\* leaves the flag Unlocked with no acquisition outstanding, as the destruction
\* of the original guard would have.
C15_RawRoundTrip ==
    /\ [][escaped' > escaped =>
             /\ inner = TRUE /\ inner' = TRUE
             /\ outstanding' = outstanding /\ lastDrop' = lastDrop
             /\ \E t \in AllThreads :
                   /\ guard[t].live /\ ~guard'[t].live
                   /\ LiveGuards' = LiveGuards \ {t}
                   /\ handle' = <<[addr |-> LockAddr, issued |-> guard[t].token]>>
                   /\ guard[t].lock = LockAddr]_vars
    /\ [][escaped' < escaped =>
             /\ inner = TRUE /\ inner' = TRUE
             /\ outstanding' = outstanding /\ lastDrop' = lastDrop
             /\ escaped' = escaped - 1
             /\ \E t \in AllThreads :
                   /\ ~guard[t].live /\ guard'[t].live
                   /\ LiveGuards' = LiveGuards \cup {t}
                   /\ guard'[t].lock = handle[1].addr
                   /\ guard'[t].lock = LockAddr
                   /\ guard'[t].token = handle[1].issued]_vars
    /\ [][\A t \in AllThreads :
             (/\ guard[t].live /\ LiveGuards' = LiveGuards \ {t}
              /\ escaped' = escaped) =>
                /\ inner' = FALSE /\ outstanding' = 0 /\ escaped' = 0
                /\ LiveGuards' = {}
                /\ lastDrop'.calls = <<guard[t].issued>>]_vars
    /\ [](\A t \in AllThreads :
             (guard[t].live /\ guard[t].via = "from_raw") =>
                /\ inner = TRUE /\ escaped = 0 /\ LiveGuards = {t}
                /\ outstanding = 1)
\* a guard rebuilt by from_raw() is live, no handle is outstanding any more, and
\* another thread is still spinning on the flag
C15_Witness ==
    \E t, u \in Threads :
        /\ t # u /\ guard[t].live /\ guard[t].via = "from_raw"
        /\ escaped = 0 /\ pc[u] = "snooze"

\* C16: once a guard has been given up with into_raw(), and as long as neither
\* from_raw() nor unlock_unchecked() is called, the handle stays outstanding and
\* the flag stays Locked: no guard is live and no thread is in a critical
\* section, every try_lock() that completes returns Err(()), and a thread
\* inside lock() stays inside lock().
C16_EscapedHeld ==
    /\ [](escaped > 0 =>
             /\ inner = TRUE /\ LiveGuards = {}
             /\ \A t \in AllThreads : pc[t] # "held")
    /\ [][escaped > 0 =>
             /\ escaped' = escaped /\ inner' = TRUE /\ outstanding' = outstanding
             /\ \A t \in AllThreads :
                   /\ (pc[t] = "try" /\ pc'[t] # "try") => pc'[t] = "err"
                   /\ pc[t] \in {"lock", "snooze"} => pc'[t] \in {"lock", "snooze"}]_vars
\* a handle is outstanding; one thread is back from a failed try_lock() and
\* another has lost more compare-and-sets inside lock() than the backoff has levels
C16_Witness ==
    /\ escaped = 1
    /\ \E t, u \in AllThreads :
          /\ t # u /\ pc[t] = "err"
          /\ pc[u] = "snooze" /\ attempts[u] = BackoffCeiling + 1

\* C17: unlock_unchecked() stores Unlocked whatever the flag, the token and the
\* caller are; and two guards are live at once only after an unsafe function
\* has been called outside its contract (the client programs that reach such a
\* state are the ones of C17_Witness).
C17_TrustBoundary ==
    /\ [][(outstanding' < outstanding /\ guard' = guard) => inner' = FALSE]_vars
    /\ [](Cardinality(LiveGuards) > 1 => misuse > 0)
    /\ [](misuse = 0 => (inner = TRUE <=> Cardinality(LiveGuards) + escaped = 1))
\* two threads are in their critical sections with guards that lock()/try_lock()
\* returned: a release that belonged to neither let the second one in
C17_Witness ==
    \E t, u \in Threads :
        /\ t # u /\ pc[t] = "held" /\ pc[u] = "held"
        /\ guard[t].live /\ guard[t].via # "from_raw" /\ guard[t].creator = t
        /\ guard[u].live /\ guard[u].via # "from_raw" /\ guard[u].creator = u
        /\ misuse > 0

\* C18: a thread that owns a live guard and calls lock() on the same Lock never
\* returns from the call: every step keeps it inside lock() with the guard it
\* had and the flag Locked, and it goes on attempting and backing off for ever;
\* when it calls try_lock() instead, the one compare-and-set fails as it does
\* for a thread without a guard: no guard is made or changed, the flag stays
\* Locked, and the thread is back in its critical section.
C18_Nested(t) == guard[t].live /\ pc[t] \in {"lock", "snooze"}
C18_NonReentrant ==
    /\ [](\A t \in Threads : guard[t].live => inner = TRUE)
    /\ [][\A t \in Threads :
             C18_Nested(t) =>
                /\ pc'[t] \in {"lock", "snooze"}
                /\ guard'[t] = guard[t]
                /\ inner' = TRUE /\ outstanding' = outstanding]_vars
    /\ \A t \in 1..NThreads :
          <>C18_Nested(t) => ([]<>(pc[t] = "lock") /\ []<>(pc[t] = "snooze"))
    /\ [][\A t \in Threads :
             (pc[t] = "try" /\ inner = TRUE /\ pc'[t] # "try") =>
                /\ pc'[t] = (IF guard[t].live THEN "held" ELSE "err")
                /\ guard' = guard /\ inner' = TRUE
                /\ outstanding' = outstanding /\ attempts' = attempts]_vars
\* thread t owns a live guard it made itself and has lost more compare-and-sets
\* inside lock() than the backoff has levels
C18_Witness ==
    \E t \in Threads :
        /\ guard[t].live /\ guard[t].creator = t
        /\ pc[t] = "snooze" /\ attempts[t] = BackoffCeiling + 1

\* C19: a lock() call starts at backoff level 0 with no attempt made; a
\* compare-and-set that finds the flag Locked is followed by one backoff step,
\* which is followed by the next compare-and-set; a backoff step raises the
\* level by one until the ceiling is reached and then leaves it there, so that
\* the level is the number of failed attempts of the call, capped at the
\* ceiling; a compare-and-set that finds the flag Unlocked ends the call, and
\* when it is the first one of the call no backoff step was made.
C19_Level(n) == IF n < BackoffCeiling THEN n ELSE BackoffCeiling
C19_Backoff ==
    /\ [](\A t \in AllThreads :
             /\ step[t] \in 0..BackoffCeiling
             /\ pc[t] = "lock" => step[t] = C19_Level(attempts[t])
             /\ pc[t] = "snooze" =>
                   attempts[t] >= 1 /\ step[t] = C19_Level(attempts[t] - 1))
    /\ [][\A t \in AllThreads :
             /\ (pc[t] \notin {"lock", "snooze"} /\ pc'[t] = "lock") =>
                   step'[t] = BackoffNew /\ attempts'[t] = 0
             /\ (pc[t] = "lock" /\ pc'[t] # "lock") =>
                   IF inner = TRUE
                   THEN /\ pc'[t] = "snooze" /\ step'[t] = step[t]
                        /\ attempts'[t] = Saturate(attempts[t] + 1)
                   ELSE /\ pc'[t] = "held" /\ guard'[t].live
                        /\ attempts[t] = 0 => step[t] = BackoffNew
             /\ (pc[t] = "snooze" /\ pc'[t] # "snooze") =>
                   /\ pc'[t] = "lock" /\ attempts'[t] = attempts[t]
                   /\ step'[t] >= step[t]
                   /\ step'[t] = C19_Level(step[t] + 1)
             /\ (pc[t] = "lock" /\ pc'[t] = "lock") =>
                   step'[t] = step[t] /\ attempts'[t] = attempts[t]]_vars
\* thread t has just got its guard with the first compare-and-set of its call
\* while thread u is at the ceiling and about to make one more attempt
C19_Witness ==
    \E t, u \in AllThreads :
        /\ t # u /\ pc[t] = "held" /\ guard[t].via = "lock"
        /\ pc[u] = "lock" /\ step[u] = BackoffCeiling
        /\ attempts[u] = BackoffCeiling + 1
====
